---- MODULE Spec2Model ----
(***************************************************************************)
(* Model of the log service core:                                          *)
(*   - LogBuffer (server/src/buffer.rs): ring store + broadcast fan-out    *)
(*   - RequestManager (server/src/request_manager.rs): per-device request  *)
(*     lifecycle                                                           *)
(* Log entries are identified by their receipt serial (1, 2, 3, ...): the  *)
(* serial an entry gets when its append call takes the buffer write lock.  *)
(* Time is counted in hours.                                               *)
(***************************************************************************)
EXTENDS Integers, Sequences, FiniteSets, TLC

(***************************************************************************)
(* Bounds of the model                                                     *)
(***************************************************************************)
\* largest CAPACITY value explored (Config::from_env accepts any usize)
MaxCapacity == 2
\* number of append calls explored
MaxAppends == 4
\* number of clear calls explored
MaxClears == 1
\* slots of the broadcast channel (broadcast::channel(100), scaled down)
ChannelCap == 1

\* number of append calls explored next to the filter settings
MaxFilterAppends == 2

\* number of create_request calls explored (request ids are 1..MaxIds)
MaxIds == 2
\* number of clock advances explored
MaxTicks == 2

\* Duration::hours(24): lifetime of a pending request
TTL_HOURS == 24
\* Duration::days(7): retention of non-pending requests
RETENTION_DAYS == 7
RetentionHours == RETENTION_DAYS * 24
\* how far the clock moves in one step, in hours
TickSteps == {TTL_HOURS, RetentionHours}

Devices == {"dev-A", "dev.B"}
Users == {"U", "V"}
\* a path is the sequence of its components
Paths == {<<"logs.jsonl">>}
Ids == 1..MaxIds

\* LogEntry.level values sent by clients: the level names in several
\* spellings and a string that names no level
LevelStrings == {"trace", "DEBUG", "Warning", "error", "verbose"}
\* LogEntry.source values
Sources == {"cli", "ios"}

\* concurrent POST /logs handlers
Workers == {"w1", "w2"}
\* SSE connections
Subs == {"s1", "s2"}
\* concurrent POST /logs/upload handlers
Uploaders == {"h1", "h2"}

VARIABLES
    inner,        \* BufferInner: entries, capacity, start_index, count
    rx,           \* per subscriber: the broadcast receiver and what its stream emitted
    inflight,     \* per worker: the entry stored but not yet broadcast (0 = idle)
    lastAppend,   \* outcome of the latest finished append call
    received,     \* number of append calls that took the write lock
    clearedAt,    \* value of received at the latest clear
    clears,       \* number of clear calls
    content,      \* the level and source of each entry passed to append, by serial
    phase,        \* per worker: how far its append is inside the write lock
    snap,         \* what the latest get_all() call returned
    requests,     \* RequestManager.requests: set of [k |-> device id, v |-> LogRequest]
    now,          \* Utc::now(), in hours
    ticks,        \* number of clock advances
    nextId,       \* the next Uuid::new_v4()
    superseded,   \* ids of the requests a later create_request replaced
    up,           \* per upload handler: where it is and the upload it is serving
    storage,      \* LogStorage: the upload files on disk
    created,      \* per request id: the uploads answered 201 Created so far
    ret           \* the latest RequestManager call, until the clock moves: operation, arguments, result

lockVars == <<phase, snap>>
bufferVars == <<inner, rx, inflight, lastAppend, received, clearedAt, clears, content, phase, snap>>
requestVars == <<requests, now, ticks, nextId, superseded, ret>>
protocolVars == <<up, storage, created>>
vars == <<inner, rx, inflight, lastAppend, received, clearedAt, clears, content, phase, snap,
          requests, now, ticks, nextId, superseded, ret, up, storage, created>>

(***************************************************************************)
(* Sequence helpers                                                        *)
(***************************************************************************)
Min(a, b) == IF a < b THEN a ELSE b

Last(s) == s[Len(s)]

LastN(s, n) == SubSeq(s, Len(s) - n + 1, Len(s))

Range(s) == {s[i] : i \in 1..Len(s)}

IsSuffix(s, t) == Len(s) <= Len(t) /\ s = LastN(t, Len(s))

\* Option values
None == <<>>
Some(x) == <<x>>

\* the entries <<a+1, ..., b>>
Serials(a, b) == [i \in 1..(b - a) |-> a + i]

(***************************************************************************)
(* LogBuffer                                                               *)
(***************************************************************************)
\* LogBuffer::new
new(cap) ==
    [entries |-> <<>>, capacity |-> cap, start_index |-> 0, count |-> 0,
     min_level |-> "Trace", source_filter |-> None]

\* the index expression entries[idx] of the overwrite branch is out of range
append_panics(b) == ~(b.count < b.capacity) /\ b.start_index >= Len(b.entries)

\* append_store with the overwrite branch forgetting to advance start_index
append_store_no_advance(b, entry) ==
    IF b.count < b.capacity
    THEN [b EXCEPT !.entries = Append(@, entry), !.count = @ + 1]
    ELSE [b EXCEPT !.entries = [@ EXCEPT ![b.start_index + 1] = entry]]

\* LogBuffer::append, the part under the write lock (start_index is 0-based)
append_store(b, entry) ==
    IF b.count < b.capacity
    THEN [b EXCEPT !.entries = Append(@, entry), !.count = @ + 1]
    ELSE [b EXCEPT !.entries = [@ EXCEPT ![b.start_index + 1] = entry],
                   !.start_index = (b.start_index + 1) % b.capacity]

\* append, lines 53-63: the write into entries, before count or start_index
\* is brought up to date
append_write(b, entry) ==
    IF b.count < b.capacity
    THEN [b EXCEPT !.entries = Append(@, entry)]
    ELSE [b EXCEPT !.entries = [@ EXCEPT ![b.start_index + 1] = entry]]

\* append leaving count and start_index as they were
append_advance_none(b) == b

\* append, lines 56 and 62: count or start_index brought up to date
append_advance(b) ==
    IF b.count < b.capacity
    THEN [b EXCEPT !.count = @ + 1]
    ELSE [b EXCEPT !.start_index = (b.start_index + 1) % b.capacity]

\* get_all returning the ring as it lies in memory, without the rotation
get_all_unrotated(b) == b.entries

\* LogBuffer::get_all
get_all(b) ==
    IF b.count < b.capacity
    THEN b.entries
    ELSE SubSeq(b.entries, b.start_index + 1, Len(b.entries))
         \o SubSeq(b.entries, 1, b.start_index)

\* clear putting the buffer back as LogBuffer::new made it, filters included
clear_to_new(b) == new(b.capacity)

\* LogBuffer::clear
clear(b) == [b EXCEPT !.entries = <<>>, !.start_index = 0, !.count = 0]

\* LogBuffer::count
count(b) == b.count

\* enum LogLevel, in the order of its discriminants 0..6
LogLevel == <<"Trace", "Debug", "Info", "Notice", "Warning", "Error", "Critical">>

\* the discriminant the derived Ord compares
discriminant(level) == (CHOOSE i \in 1..Len(LogLevel) : LogLevel[i] = level) - 1

\* str::to_lowercase on the level strings of the model
to_lowercase(s) ==
    CASE s = "DEBUG" -> "debug"
      [] s = "Warning" -> "warning"
      [] OTHER -> s

\* LogLevel::from_str matching the string as it was sent
from_str_exact(s) ==
    CASE s = "trace" -> "Trace"
      [] s = "debug" -> "Debug"
      [] s = "info" -> "Info"
      [] s = "notice" -> "Notice"
      [] s = "warning" -> "Warning"
      [] s = "error" -> "Error"
      [] s = "critical" -> "Critical"
      [] OTHER -> "Info"

\* LogLevel::from_str
from_str(s) ==
    LET l == to_lowercase(s) IN
    CASE l = "trace" -> "Trace"
      [] l = "debug" -> "Debug"
      [] l = "info" -> "Info"
      [] l = "notice" -> "Notice"
      [] l = "warning" -> "Warning"
      [] l = "error" -> "Error"
      [] l = "critical" -> "Critical"
      [] OTHER -> "Info"

\* the values of Option<Vec<String>> up to what contains() tells apart
SourceFilters == {None} \cup {Some(S) : S \in SUBSET Sources}

\* LogBuffer::get_filtered; c gives each stored entry's level and source
get_filtered(b, c) ==
    LET passes(e) ==
            /\ ~(discriminant(from_str(c[e].level)) < discriminant(b.min_level))
            /\ b.source_filter # None => c[e].source \in b.source_filter[1]
    IN  SelectSeq(get_all(b), passes)

\* LogBuffer::set_minimum_level
set_minimum_level(b, level) == [b EXCEPT !.min_level = level]

\* LogBuffer::set_source_filter
set_source_filter(b, sources) == [b EXCEPT !.source_filter = sources]

(***************************************************************************)
(* Broadcast channel (tokio broadcast), seen per receiver: queue holds the *)
(* values sent since subscribe and not yet received, at most ChannelCap of *)
(* them; lagged counts the values the receiver lost and has not yet been   *)
(* told about.  got is what the SSE stream of handle_stream has emitted,   *)
(* before the set of entries whose append had finished at subscribe time.  *)
(***************************************************************************)
NoReceiver == [active |-> FALSE, queue |-> <<>>, lagged |-> 0, got |-> <<>>, before |-> {}]

\* a full queue refusing the new value instead of dropping its oldest
push_keep_oldest(r, entry) ==
    IF Len(r.queue) < ChannelCap
    THEN [r EXCEPT !.queue = Append(@, entry)]
    ELSE [r EXCEPT !.lagged = @ + 1]

\* broadcast::Sender::send for one receiver
push(r, entry) ==
    IF Len(r.queue) < ChannelCap
    THEN [r EXCEPT !.queue = Append(@, entry)]
    ELSE [r EXCEPT !.queue = Append(Tail(@), entry), !.lagged = @ + 1]

\* broadcast::Sender::send: every live receiver gets the value; none is an Err the caller drops
send(receivers, entry) ==
    [s \in Subs |-> IF receivers[s].active THEN push(receivers[s], entry) ELSE receivers[s]]

\* subscribe replaying an entry that was appended before the subscription
subscribe_replay(done) ==
    [active |-> TRUE,
     queue |-> IF done = {} THEN <<>> ELSE <<CHOOSE e \in done : \A f \in done : f <= e>>,
     lagged |-> 0, got |-> <<>>, before |-> done]

\* LogBuffer::subscribe: a receiver that starts at the channel's tail
subscribe(done) == [active |-> TRUE, queue |-> <<>>, lagged |-> 0, got |-> <<>>, before |-> done]

\* entries whose append call has finished
Completed == {e \in 1..received : \A w \in Workers : inflight[w] # e}

\* entries passed to append since the latest clear, in receipt order
SinceClear == Serials(clearedAt, received)

(***************************************************************************)
(* Actions of the buffer                                                   *)
(***************************************************************************)
InitBuffer(caps) ==
    /\ \E cap \in caps : inner = new(cap)
    /\ rx = [s \in Subs |-> NoReceiver]
    /\ inflight = [w \in Workers |-> 0]
    /\ lastAppend = "none"
    /\ received = 0
    /\ clearedAt = 0
    /\ clears = 0
    /\ content = <<>>
    /\ phase = [w \in Workers |-> "idle"]
    /\ snap = <<>>

\* RequestManager::new
InitRequests ==
    /\ requests = {}
    /\ now = 0
    /\ ticks = 0
    /\ nextId = 1
    /\ superseded = {}
    /\ ret = [op |-> "none"]

\* an upload handler that is serving no request
Idle == [pc |-> "idle"]

\* LogStorage::new on an empty base directory, no upload in progress
InitProtocol ==
    /\ up = [h \in Uploaders |-> Idle]
    /\ storage = {}
    /\ created = [i \in Ids |-> 0]

Init == InitBuffer(0..MaxCapacity) /\ InitRequests /\ InitProtocol

\* handle_receive_log -> LogBuffer::append, up to drop(inner), for an entry
\* with this level and source
ReceiveLog(w, level, source) ==
    /\ inflight[w] = 0
    /\ received < MaxAppends
    /\ received' = received + 1
    /\ content' = Append(content, [level |-> level, source |-> source])
    /\ IF append_panics(inner)
       THEN /\ lastAppend' = "panic"
            /\ UNCHANGED <<inner, inflight>>
       ELSE /\ inner' = append_store(inner, received + 1)
            /\ inflight' = [inflight EXCEPT ![w] = received + 1]
            /\ UNCHANGED lastAppend
    /\ UNCHANGED <<rx, clearedAt, clears>>
    /\ UNCHANGED <<lockVars, requestVars, protocolVars>>

\* an append of an entry of level info from the command line client
AppendStore(w) == ReceiveLog(w, "info", "cli")

\* LogBuffer::append, the broadcast after the lock is released, and the return
AppendSend(w) ==
    /\ inflight[w] # 0
    /\ phase[w] = "idle"
    /\ rx' = send(rx, inflight[w])
    /\ inflight' = [inflight EXCEPT ![w] = 0]
    /\ lastAppend' = "ok"
    /\ UNCHANGED <<inner, received, clearedAt, clears, content>>
    /\ UNCHANGED <<lockVars, requestVars, protocolVars>>

\* handle_clear_logs -> LogBuffer::clear
Clear ==
    /\ clears < MaxClears
    /\ inner' = clear(inner)
    /\ clearedAt' = received
    /\ clears' = clears + 1
    /\ UNCHANGED <<rx, inflight, lastAppend, received, content>>
    /\ UNCHANGED <<lockVars, requestVars, protocolVars>>

\* handle_stream: subscribe
Subscribe(s) ==
    /\ ~rx[s].active
    /\ rx' = [rx EXCEPT ![s] = subscribe(Completed)]
    /\ UNCHANGED <<inner, inflight, lastAppend, received, clearedAt, clears, content>>
    /\ UNCHANGED <<lockVars, requestVars, protocolVars>>

\* handle_stream: the stream polls its receiver; a Lagged error is logged and skipped
Recv(s) ==
    /\ rx[s].active
    /\ \/ /\ rx[s].lagged > 0
          /\ rx' = [rx EXCEPT ![s].lagged = 0]
       \/ /\ rx[s].lagged = 0
          /\ rx[s].queue # <<>>
          /\ rx' = [rx EXCEPT ![s].got = Append(@, Head(rx[s].queue)),
                              ![s].queue = Tail(@)]
    /\ UNCHANGED <<inner, inflight, lastAppend, received, clearedAt, clears, content>>
    /\ UNCHANGED <<lockVars, requestVars, protocolVars>>

\* the client disconnects: the stream and its receiver are dropped
Disconnect(s) ==
    /\ rx[s].active
    /\ rx' = [rx EXCEPT ![s] = NoReceiver]
    /\ UNCHANGED <<inner, inflight, lastAppend, received, clearedAt, clears, content>>
    /\ UNCHANGED <<lockVars, requestVars, protocolVars>>

\* a call of LogBuffer::set_minimum_level
SetMinimumLevel(level) ==
    /\ inner' = set_minimum_level(inner, level)
    /\ UNCHANGED <<rx, inflight, lastAppend, received, clearedAt, clears, content>>
    /\ UNCHANGED <<lockVars, requestVars, protocolVars>>

\* a call of LogBuffer::set_source_filter
SetSourceFilter(sources) ==
    /\ inner' = set_source_filter(inner, sources)
    /\ UNCHANGED <<rx, inflight, lastAppend, received, clearedAt, clears, content>>
    /\ UNCHANGED <<lockVars, requestVars, protocolVars>>

\* no append is inside the write lock
LockFree == \A w \in Workers : phase[w] = "idle"

\* a reader that does not wait for the writer
read_allowed_always == TRUE

\* inner.read(): a reader gets the lock when no writer holds it
read_allowed == LockFree

\* append, line 51: inner.write() is granted when nobody holds the lock
AppendLock(w) ==
    /\ inflight[w] = 0
    /\ phase[w] = "idle"
    /\ LockFree
    /\ received < MaxAppends
    /\ received' = received + 1
    /\ content' = Append(content, [level |-> "info", source |-> "cli"])
    /\ inflight' = [inflight EXCEPT ![w] = received + 1]
    /\ phase' = [phase EXCEPT ![w] = "locked"]
    /\ UNCHANGED <<inner, rx, lastAppend, clearedAt, clears, snap>>
    /\ UNCHANGED <<requestVars, protocolVars>>

\* append, lines 55 and 61: the entry is written; indexing outside entries
\* panics and the unwinding drops the lock guard
AppendWrite(w) ==
    /\ phase[w] = "locked"
    /\ IF append_panics(inner)
       THEN /\ lastAppend' = "panic"
            /\ inflight' = [inflight EXCEPT ![w] = 0]
            /\ phase' = [phase EXCEPT ![w] = "idle"]
            /\ UNCHANGED inner
       ELSE /\ inner' = append_write(inner, inflight[w])
            /\ phase' = [phase EXCEPT ![w] = "written"]
            /\ UNCHANGED <<lastAppend, inflight>>
    /\ UNCHANGED <<rx, received, clearedAt, clears, content, snap>>
    /\ UNCHANGED <<requestVars, protocolVars>>

\* append, lines 56/62 and 66: count or start_index is updated and
\* drop(inner) releases the lock
AppendUnlock(w) ==
    /\ phase[w] = "written"
    /\ inner' = append_advance(inner)
    /\ phase' = [phase EXCEPT ![w] = "idle"]
    /\ UNCHANGED <<rx, inflight, lastAppend, received, clearedAt, clears, content, snap>>
    /\ UNCHANGED <<requestVars, protocolVars>>

\* handle_clear_logs -> LogBuffer::clear, whose inner.write() waits for the lock
LockedClear == LockFree /\ Clear

\* handle_get_all_logs -> LogBuffer::get_all under the read lock
GetAll ==
    /\ read_allowed
    /\ snap' = get_all(inner)
    /\ UNCHANGED <<inner, rx, inflight, lastAppend, received, clearedAt, clears, content, phase>>
    /\ UNCHANGED <<requestVars, protocolVars>>

BufferNext ==
    \/ \E w \in Workers : AppendStore(w)
    \/ \E w \in Workers : AppendSend(w)
    \/ Clear
    \/ \E s \in Subs : Subscribe(s)
    \/ \E s \in Subs : Recv(s)
    \/ \E s \in Subs : Disconnect(s)

BufferSpec == Init /\ [][BufferNext]_vars

(***************************************************************************)
(* RequestManager: the store is a HashMap<String, LogRequest>, modelled as *)
(* a set of key/value pairs.  Option values are <<>> (None) or <<x>>.      *)
(***************************************************************************)

\* HashMap::contains_key / get / insert
contains_key(m, k) == \E p \in m : p.k = k
get(m, k) == (CHOOSE p \in m : p.k = k).v
insert(m, k, v) == {p \in m : p.k # k} \cup {[k |-> k, v |-> v]}

\* the LogRequest built by create_request
new_request(id, user_id, device_id, t) ==
    [id |-> id, user_id |-> user_id, device_id |-> device_id,
     requested_at |-> t, expires_at |-> t + TTL_HOURS,
     status |-> "Pending", fulfilled_at |-> None, log_file_path |-> None]

\* create_request keeping the device's old entry next to the new one
create_request_keep_both(m, id, user_id, device_id, t) ==
    m \cup {[k |-> device_id, v |-> new_request(id, user_id, device_id, t)]}

\* create_request leaving an existing entry in place (entry().or_insert)
create_request_if_absent(m, id, user_id, device_id, t) ==
    IF contains_key(m, device_id) THEN m
    ELSE insert(m, device_id, new_request(id, user_id, device_id, t))

\* create_request with the expiry set to the creation time
create_request_no_ttl(m, id, user_id, device_id, t) ==
    insert(m, device_id, [new_request(id, user_id, device_id, t) EXCEPT !.expires_at = t])

\* RequestManager::create_request: the store afterwards
create_request(m, id, user_id, device_id, t) ==
    insert(m, device_id, new_request(id, user_id, device_id, t))

\* get_pending reporting none for an expired request without marking it
get_pending_store_no_mark(m, device_id, t) == m

\* RequestManager::get_pending: the store afterwards (lazy expiry)
get_pending_store(m, device_id, t) ==
    IF ~contains_key(m, device_id) THEN m
    ELSE LET request == get(m, device_id) IN
         IF request.status = "Pending" /\ t > request.expires_at
         THEN insert(m, device_id, [request EXCEPT !.status = "Expired"])
         ELSE m

\* get_pending without the expiry test: any stored Pending request is returned
get_pending_no_expiry(m, device_id, t) ==
    IF ~contains_key(m, device_id) THEN None
    ELSE LET request == get(m, device_id) IN
         IF request.status = "Pending" THEN Some(request) ELSE None

\* RequestManager::get_pending: the value returned
get_pending(m, device_id, t) ==
    IF ~contains_key(m, device_id) THEN None
    ELSE LET request == get(m, device_id) IN
         IF request.status = "Pending" /\ t > request.expires_at THEN None
         ELSE IF request.status = "Pending" THEN Some(request)
         ELSE None

\* the keys whose request has this id (fulfill scans the map)
find_by_id(m, request_id) == {p.k : p \in {q \in m : q.v.id = request_id}}

\* fulfill without the check that the request is still pending
fulfill_result_unchecked(m, request_id) ==
    IF find_by_id(m, request_id) = {} THEN "NotFound" ELSE "Ok"

\* RequestManager::fulfill: Ok or the RequestError
fulfill_result(m, request_id) ==
    IF find_by_id(m, request_id) = {} THEN "NotFound"
    ELSE LET device_id == CHOOSE k \in find_by_id(m, request_id) : TRUE IN
         IF get(m, device_id).status # "Pending" THEN "AlreadyProcessed"
         ELSE "Ok"

\* fulfill setting the status but not the fulfillment time
fulfill_store_no_stamp(m, request_id, file_path, t) ==
    IF fulfill_result(m, request_id) # "Ok" THEN m
    ELSE LET device_id == CHOOSE k \in find_by_id(m, request_id) : TRUE IN
         insert(m, device_id, [get(m, device_id) EXCEPT !.status = "Fulfilled",
                                                        !.log_file_path = Some(file_path)])

\* fulfill taking whichever requests are pending instead of the one with the id
fulfill_store_any_pending(m, request_id, file_path, t) ==
    {IF p.v.status = "Pending"
     THEN [p EXCEPT !.v.status = "Fulfilled", !.v.fulfilled_at = Some(t),
                    !.v.log_file_path = Some(file_path)]
     ELSE p : p \in m}

\* RequestManager::fulfill: the store afterwards
fulfill_store(m, request_id, file_path, t) ==
    IF fulfill_result(m, request_id) # "Ok" THEN m
    ELSE LET device_id == CHOOSE k \in find_by_id(m, request_id) : TRUE IN
         insert(m, device_id, [get(m, device_id) EXCEPT !.status = "Fulfilled",
                                                        !.fulfilled_at = Some(t),
                                                        !.log_file_path = Some(file_path)])

\* cancel without the check that the request is still pending
cancel_result_unchecked(m, device_id) ==
    IF ~contains_key(m, device_id) THEN "NotFound" ELSE "Ok"

\* RequestManager::cancel: Ok or the RequestError
cancel_result(m, device_id) ==
    IF ~contains_key(m, device_id) THEN "NotFound"
    ELSE IF get(m, device_id).status # "Pending" THEN "AlreadyProcessed"
    ELSE "Ok"

\* RequestManager::cancel: the store afterwards
cancel_store(m, device_id) ==
    IF cancel_result(m, device_id) # "Ok" THEN m
    ELSE insert(m, device_id, [get(m, device_id) EXCEPT !.status = "Cancelled"])

\* the sweep treating a request as expired from its expiry time on
mark_expired_at_expiry(m, t) ==
    {[p EXCEPT !.v.status = IF @ = "Pending" /\ t >= p.v.expires_at THEN "Expired" ELSE @]
        : p \in m}

\* cleanup_expired, first loop: pending requests past their expiry become Expired
mark_expired(m, t) ==
    {[p EXCEPT !.v.status = IF @ = "Pending" /\ t > p.v.expires_at THEN "Expired" ELSE @]
        : p \in m}

\* cleanup_expired keeping the entries created exactly 7 days ago
cleanup_expired_store_late(m, t) ==
    LET cutoff == t - RetentionHours IN
    {p \in mark_expired(m, t) : p.v.status = "Pending" \/ p.v.requested_at >= cutoff}

\* RequestManager::cleanup_expired: the store afterwards
cleanup_expired_store(m, t) ==
    LET cutoff == t - RetentionHours IN
    {p \in mark_expired(m, t) : p.v.status = "Pending" \/ p.v.requested_at > cutoff}

\* RequestManager::cleanup_expired: the number removed
cleanup_expired(m, t) == Cardinality(m) - Cardinality(cleanup_expired_store(m, t))

\* stats counting every stored Pending entry as pending
stats_by_stored_status(m, t) ==
    [total |-> Cardinality(m),
     pending |-> Cardinality({p \in m : p.v.status = "Pending"}),
     fulfilled |-> Cardinality({p \in m : p.v.status = "Fulfilled"}),
     expired |-> Cardinality({p \in m : p.v.status = "Expired"}),
     cancelled |-> Cardinality({p \in m : p.v.status = "Cancelled"})]

\* RequestManager::stats
stats(m, t) ==
    [total |-> Cardinality(m),
     pending |-> Cardinality({p \in m : p.v.status = "Pending" /\ ~(t > p.v.expires_at)}),
     fulfilled |-> Cardinality({p \in m : p.v.status = "Fulfilled"}),
     expired |-> Cardinality({p \in m : p.v.status = "Expired"
                                         \/ (p.v.status = "Pending" /\ t > p.v.expires_at)}),
     cancelled |-> Cardinality({p \in m : p.v.status = "Cancelled"})]

(***************************************************************************)
(* Actions of the request manager                                          *)
(***************************************************************************)
\* the status of the device's entry when a call found it, "none" without an entry
Replaced(m, device_id) ==
    IF contains_key(m, device_id) THEN get(m, device_id).status ELSE "none"

\* RequestManager::create_request
CreateRequest(user_id, device_id) ==
    /\ nextId <= MaxIds
    /\ requests' = create_request(requests, nextId, user_id, device_id, now)
    /\ nextId' = nextId + 1
    /\ superseded' = superseded \cup {p.v.id : p \in {q \in requests : q.k = device_id}}
    /\ ret' = [op |-> "create_request", user_id |-> user_id, device_id |-> device_id,
               replaced |-> Replaced(requests, device_id),
               val |-> new_request(nextId, user_id, device_id, now)]
    /\ UNCHANGED <<now, ticks>>
    /\ UNCHANGED <<bufferVars, protocolVars>>

\* RequestManager::get_pending
GetPending(device_id) ==
    /\ requests' = get_pending_store(requests, device_id, now)
    /\ ret' = [op |-> "get_pending", device_id |-> device_id,
               was |-> Replaced(requests, device_id),
               val |-> get_pending(requests, device_id, now)]
    /\ UNCHANGED <<now, ticks, nextId, superseded>>
    /\ UNCHANGED <<bufferVars, protocolVars>>

\* RequestManager::fulfill
Fulfill(request_id, file_path) ==
    /\ requests' = fulfill_store(requests, request_id, file_path, now)
    /\ ret' = [op |-> "fulfill", id |-> request_id,
               val |-> fulfill_result(requests, request_id)]
    /\ UNCHANGED <<now, ticks, nextId, superseded>>
    /\ UNCHANGED <<bufferVars, protocolVars>>

\* RequestManager::cancel
Cancel(device_id) ==
    /\ requests' = cancel_store(requests, device_id)
    /\ ret' = [op |-> "cancel", device_id |-> device_id,
               val |-> cancel_result(requests, device_id)]
    /\ UNCHANGED <<now, ticks, nextId, superseded>>
    /\ UNCHANGED <<bufferVars, protocolVars>>

\* RequestManager::cleanup_expired
CleanupExpired ==
    /\ requests' = cleanup_expired_store(requests, now)
    /\ ret' = [op |-> "cleanup_expired", val |-> cleanup_expired(requests, now)]
    /\ UNCHANGED <<now, ticks, nextId, superseded>>
    /\ UNCHANGED <<bufferVars, protocolVars>>

\* RequestManager::stats
Stats ==
    /\ ret' = [op |-> "stats", val |-> stats(requests, now)]
    /\ UNCHANGED <<requests, now, ticks, nextId, superseded>>
    /\ UNCHANGED <<bufferVars, protocolVars>>

\* the clock moves on; ret describes a call made at the present time only
Tick(step) ==
    /\ ticks < MaxTicks
    /\ now' = now + step
    /\ ticks' = ticks + 1
    /\ ret' = [op |-> "tick"]
    /\ UNCHANGED <<requests, nextId, superseded>>
    /\ UNCHANGED <<bufferVars, protocolVars>>

RequestNext ==
    \/ \E u \in Users, d \in Devices : CreateRequest(u, d)
    \/ \E d \in Devices : GetPending(d)
    \/ \E i \in Ids, f \in Paths : Fulfill(i, f)
    \/ \E d \in Devices : Cancel(d)
    \/ CleanupExpired
    \/ Stats
    \/ \E step \in TickSteps : Tick(step)

\* the request manager alone, next to an idle buffer
RequestInit == InitBuffer({1}) /\ InitRequests /\ InitProtocol

RequestSpec == RequestInit /\ [][RequestNext]_vars

(***************************************************************************)
(* The protected endpoints: handle_poll, handle_upload and LogStorage       *)
(***************************************************************************)
\* Uuid::to_string: the hyphenated text of a request id
to_string(id) == [form |-> "hyphenated", id |-> id]

\* a request id string that is no UUID
Malformed == [form |-> "malformed", id |-> 0]

\* the request id strings an upload may carry
RequestIdStrings == {to_string(i) : i \in Ids} \cup {Malformed}

\* Uuid::parse_str
parse_str(s) == IF s.form = "hyphenated" THEN Some(s.id) ELSE None

\* DateTime::to_rfc3339
to_rfc3339(t) == [rfc3339 |-> t]

\* handle_poll without the comparison of the request's user with the caller
handle_poll_any_user(m, user_id, device_id, t) ==
    LET pending == get_pending(m, device_id, t) IN
    IF pending # None
    THEN [status |-> "OK",
          body |-> Some([request_id |-> to_string(pending[1].id),
                         requested_at |-> to_rfc3339(pending[1].requested_at),
                         expires_at |-> to_rfc3339(pending[1].expires_at)])]
    ELSE [status |-> "OK", body |-> None]

\* handle_poll: the response
handle_poll(m, user_id, device_id, t) ==
    LET pending == get_pending(m, device_id, t) IN
    IF pending # None
    THEN IF pending[1].user_id # user_id
         THEN [status |-> "FORBIDDEN",
               message |-> "This log request belongs to a different user"]
         ELSE [status |-> "OK",
               body |-> Some([request_id |-> to_string(pending[1].id),
                              requested_at |-> to_rfc3339(pending[1].requested_at),
                              expires_at |-> to_rfc3339(pending[1].expires_at)])]
    ELSE [status |-> "OK", body |-> None]

\* the checks of handle_upload passed: the handler goes on to save_upload
Continue == [status |-> "continue"]

\* handle_upload looking the request up by its id instead of by the device
handle_upload_check_by_id(m, user_id, device_id, request_id, t) ==
    IF parse_str(request_id) = None
    THEN [status |-> "BAD_REQUEST", message |-> "Invalid request ID format"]
    ELSE LET found == {p \in m : p.v.id = parse_str(request_id)[1]
                                 /\ p.v.status = "Pending"
                                 /\ ~(t > p.v.expires_at)} IN
         IF found = {}
         THEN [status |-> "BAD_REQUEST",
               message |-> "Request ID does not match pending request"]
         ELSE IF (CHOOSE p \in found : TRUE).v.user_id # user_id
         THEN [status |-> "FORBIDDEN",
               message |-> "This log request belongs to a different user"]
         ELSE Continue

\* handle_upload without the comparison of the request's user with the caller
handle_upload_check_any_user(m, user_id, device_id, request_id, t) ==
    IF parse_str(request_id) = None
    THEN [status |-> "BAD_REQUEST", message |-> "Invalid request ID format"]
    ELSE LET pending == get_pending(m, device_id, t) IN
         IF pending # None
         THEN IF pending[1].id # parse_str(request_id)[1]
              THEN [status |-> "BAD_REQUEST",
                    message |-> "Request ID does not match pending request"]
              ELSE Continue
         ELSE [status |-> "NOT_FOUND",
               message |-> "No pending request found for this device"]

\* handle_upload taking the device's stored entry whatever its status
handle_upload_check_stored(m, user_id, device_id, request_id, t) ==
    IF parse_str(request_id) = None
    THEN [status |-> "BAD_REQUEST", message |-> "Invalid request ID format"]
    ELSE IF contains_key(m, device_id)
         THEN IF get(m, device_id).id # parse_str(request_id)[1]
              THEN [status |-> "BAD_REQUEST",
                    message |-> "Request ID does not match pending request"]
              ELSE IF get(m, device_id).user_id # user_id
              THEN [status |-> "FORBIDDEN",
                    message |-> "This log request belongs to a different user"]
              ELSE Continue
         ELSE [status |-> "NOT_FOUND",
               message |-> "No pending request found for this device"]

\* handle_upload up to save_upload: the error response, or Continue
handle_upload_check(m, user_id, device_id, request_id, t) ==
    IF parse_str(request_id) = None
    THEN [status |-> "BAD_REQUEST", message |-> "Invalid request ID format"]
    ELSE LET pending == get_pending(m, device_id, t) IN
         IF pending # None
         THEN IF pending[1].id # parse_str(request_id)[1]
              THEN [status |-> "BAD_REQUEST",
                    message |-> "Request ID does not match pending request"]
              ELSE IF pending[1].user_id # user_id
              THEN [status |-> "FORBIDDEN",
                    message |-> "This log request belongs to a different user"]
              ELSE Continue
         ELSE [status |-> "NOT_FOUND",
               message |-> "No pending request found for this device"]

\* handle_upload up to save_upload: the request store afterwards; get_pending
\* is called only once the request id has parsed
handle_upload_check_store(m, device_id, request_id, t) ==
    IF parse_str(request_id) = None THEN m ELSE get_pending_store(m, device_id, t)

\* storage.rs sanitize_filename: keeps alphanumerics, '-' and '_' and drops
\* every other character
sanitize_filename(device_id) ==
    CASE device_id = "dev-A" -> "dev-A"
      [] device_id = "dev.B" -> "devB"

\* the outcomes of save_upload: written and flushed; failed before File::create
\* (create_dir_all or the create itself); failed after File::create, which has
\* then created or truncated the file
SaveResults == {"Ok", "ErrBeforeCreate", "ErrAfterCreate"}

\* the file save_upload writes: base/user_id/sanitized device id/request_id.jsonl
\* `from` names the upload whose batch the file holds
upload_file(user_id, device_id, request_id, from, complete) ==
    [user_id |-> user_id, dir |-> sanitize_filename(device_id),
     request_id |-> request_id, from |-> from, complete |-> complete]

\* save_upload reporting success without a file
save_upload_unwritten(files, user_id, device_id, request_id, from, result) == files

\* LogStorage::save_upload: the files afterwards
save_upload(files, user_id, device_id, request_id, from, result) ==
    LET others == {f \in files : ~(/\ f.user_id = user_id
                                   /\ f.dir = sanitize_filename(device_id)
                                   /\ f.request_id = request_id)} IN
    CASE result = "Ok" ->
             others \cup {upload_file(user_id, device_id, request_id, from, TRUE)}
      [] result = "ErrAfterCreate" ->
             others \cup {upload_file(user_id, device_id, request_id, from, FALSE)}
      [] result = "ErrBeforeCreate" -> files

\* LogStorage::read_upload: the files at base/user_id/sanitized device id/
\* request_id.jsonl, none when the file does not exist
read_upload(files, user_id, device_id, request_id) ==
    {f \in files : /\ f.user_id = user_id
                   /\ f.dir = sanitize_filename(device_id)
                   /\ f.request_id = request_id}

\* handle_upload going on to fulfill although save_upload failed
after_save_ignore_error(result) == "fulfill"

\* handle_upload after save_upload: `?` returns the error, Ok goes on to fulfill
after_save(result) == IF result = "Ok" THEN "fulfill" ELSE "return"

\* handle_upload: the path string handed to fulfill, made of the raw device id
file_path(user_id, device_id, request_id) == <<user_id, device_id, request_id>>

\* handle_create_request: the response is the request create_request returns
HandleCreateRequest(user_id, device_id) ==
    /\ nextId <= MaxIds
    /\ requests' = create_request(requests, nextId, user_id, device_id, now)
    /\ nextId' = nextId + 1
    /\ superseded' = superseded \cup {p.v.id : p \in {q \in requests : q.k = device_id}}
    /\ ret' = [op |-> "handle_create_request",
               val |-> [status |-> "OK",
                        body |-> new_request(nextId, user_id, device_id, now)]]
    /\ UNCHANGED <<now, ticks>>
    /\ UNCHANGED <<bufferVars, protocolVars>>

\* handle_poll
HandlePoll(user_id, device_id) ==
    /\ requests' = get_pending_store(requests, device_id, now)
    /\ ret' = [op |-> "handle_poll", user_id |-> user_id, device_id |-> device_id,
               val |-> handle_poll(requests, user_id, device_id, now)]
    /\ UNCHANGED <<now, ticks, nextId, superseded>>
    /\ UNCHANGED <<bufferVars, protocolVars>>

\* handle_upload, lines 197-227: parse the id, get_pending, the two comparisons
HandleUploadCheck(h, user_id, device_id, request_id) ==
    /\ up[h] = Idle
    /\ LET val == handle_upload_check(requests, user_id, device_id, request_id, now) IN
       /\ requests' = handle_upload_check_store(requests, device_id, request_id, now)
       /\ up' = IF val = Continue
                THEN [up EXCEPT ![h] = [pc |-> "save", user_id |-> user_id,
                                        device_id |-> device_id,
                                        request_id |-> parse_str(request_id)[1]]]
                ELSE up
       /\ ret' = [op |-> "handle_upload", at |-> "check", h |-> h,
                  user_id |-> user_id, device_id |-> device_id,
                  request_id |-> parse_str(request_id), val |-> val]
    /\ UNCHANGED <<now, ticks, nextId, superseded, storage, created>>
    /\ UNCHANGED bufferVars

\* handle_upload, lines 230-238: save_upload and the return of its error
HandleUploadSave(h, result) ==
    /\ up[h].pc = "save"
    /\ storage' = save_upload(storage, up[h].user_id, up[h].device_id,
                              up[h].request_id, h, result)
    /\ up' = [up EXCEPT ![h] = IF after_save(result) = "fulfill"
                               THEN [up[h] EXCEPT !.pc = "fulfill"]
                               ELSE Idle]
    /\ ret' = [op |-> "handle_upload", at |-> "save", h |-> h,
               user_id |-> up[h].user_id, device_id |-> up[h].device_id,
               request_id |-> Some(up[h].request_id), saved |-> result,
               val |-> IF after_save(result) = "fulfill" THEN Continue
                       ELSE [status |-> "INTERNAL_SERVER_ERROR",
                             message |-> "Failed to save logs"]]
    /\ UNCHANGED <<requests, now, ticks, nextId, superseded, created>>
    /\ UNCHANGED bufferVars

\* handle_upload, lines 241-260: fulfill and the response
HandleUploadFulfill(h) ==
    /\ up[h].pc = "fulfill"
    /\ requests' = fulfill_store(requests, up[h].request_id,
                       file_path(up[h].user_id, up[h].device_id, up[h].request_id), now)
    /\ up' = [up EXCEPT ![h] = Idle]
    /\ ret' = [op |-> "handle_upload", at |-> "fulfill", h |-> h,
               user_id |-> up[h].user_id, device_id |-> up[h].device_id,
               request_id |-> Some(up[h].request_id),
               val |-> IF fulfill_result(requests, up[h].request_id) = "Ok"
                       THEN [status |-> "CREATED"]
                       ELSE [status |-> "INTERNAL_SERVER_ERROR",
                             message |-> "Failed to fulfill request"]]
    /\ created' = IF fulfill_result(requests, up[h].request_id) = "Ok"
                  THEN [created EXCEPT ![up[h].request_id] = @ + 1]
                  ELSE created
    /\ UNCHANGED <<now, ticks, nextId, superseded, storage>>
    /\ UNCHANGED bufferVars

\* polling next to the request manager's calls
PollNext ==
    \/ \E u \in Users, d \in Devices : HandleCreateRequest(u, d)
    \/ \E u \in Users, d \in Devices : HandlePoll(u, d)
    \/ \E i \in Ids, f \in Paths : Fulfill(i, f)
    \/ \E d \in Devices : Cancel(d)
    \/ \E step \in TickSteps : Tick(step)

PollInit == InitBuffer({1}) /\ InitRequests /\ InitProtocol

PollSpec == PollInit /\ [][PollNext]_vars

\* the users that create requests in the upload protocol; the code only
\* compares user ids for equality, so which user creates does not matter
Requesters == {"U"}

\* the upload protocol as the router of main.rs wires it, over one request
\* manager and one storage: one upload handler at a time, uploads by the
\* requester and by another user, the clock moving in steps of the request
\* lifetime; no route calls cancel or cleanup_expired
ProtocolNext ==
    \/ \E u \in Requesters, d \in Devices : HandleCreateRequest(u, d)
    \/ \E u \in Users, d \in Devices, s \in RequestIdStrings :
           HandleUploadCheck("h1", u, d, s)
    \/ \E result \in SaveResults : HandleUploadSave("h1", result)
    \/ HandleUploadFulfill("h1")
    \/ Tick(TTL_HOURS)

ProtocolInit == InitBuffer({1}) /\ InitRequests /\ InitProtocol

ProtocolSpec == ProtocolInit /\ [][ProtocolNext]_vars

\* the device two uploads race for
RaceDevice == "dev-A"

\* two upload handlers running at once for one device and one user, their
\* check, save and fulfill steps interleaving with each other and with
\* create_request
RaceNext ==
    \/ \E u \in Requesters : HandleCreateRequest(u, RaceDevice)
    \/ \E h \in Uploaders, u \in Requesters, i \in Ids :
           HandleUploadCheck(h, u, RaceDevice, to_string(i))
    \/ \E h \in Uploaders, result \in SaveResults : HandleUploadSave(h, result)
    \/ \E h \in Uploaders : HandleUploadFulfill(h)
    \/ Tick(TTL_HOURS)

RaceInit == InitBuffer({1}) /\ InitRequests /\ InitProtocol

RaceSpec == RaceInit /\ [][RaceNext]_vars

\* the protected routes of the running service: a request is made, polled
\* for and uploaded to when a client calls, and the clock moves; main.rs
\* starts no task besides the server, so nothing calls cleanup_expired
ServiceNext ==
    \/ \E u \in Requesters, d \in Devices : HandleCreateRequest(u, d)
    \/ \E u \in Requesters, d \in Devices : HandlePoll(u, d)
    \/ \E u \in Requesters, d \in Devices, i \in Ids :
           HandleUploadCheck("h1", u, d, to_string(i))
    \/ \E result \in SaveResults : HandleUploadSave("h1", result)
    \/ HandleUploadFulfill("h1")
    \/ \E step \in TickSteps : Tick(step)

ServiceInit == InitBuffer({1}) /\ InitRequests /\ InitProtocol

\* the clock keeps moving and a handler that was entered runs to its
\* response; whether a client ever sends a request is up to the client
ServiceSpec ==
    /\ ServiceInit
    /\ [][ServiceNext]_vars
    /\ WF_vars(\E step \in TickSteps : Tick(step))
    /\ WF_vars(\E result \in SaveResults : HandleUploadSave("h1", result))
    /\ WF_vars(HandleUploadFulfill("h1"))

\* the log routes with the appends arriving one at a time: what each
\* subscriber of /stream is sent, delivered and loses, next to clear
StreamNext ==
    \/ AppendStore("w1")
    \/ AppendSend("w1")
    \/ Clear
    \/ \E s \in Subs : Subscribe(s)
    \/ \E s \in Subs : Recv(s)
    \/ \E s \in Subs : Disconnect(s)

StreamInit == InitBuffer({MaxCapacity}) /\ InitRequests /\ InitProtocol

StreamSpec == StreamInit /\ [][StreamNext]_vars

\* the buffer with its filter settings: entries of every level spelling and
\* source are appended while the settings change
FilterNext ==
    \/ \E level \in LevelStrings, source \in Sources :
           received < MaxFilterAppends /\ ReceiveLog("w1", level, source)
    \/ AppendSend("w1")
    \/ \E i \in 1..Len(LogLevel) : SetMinimumLevel(LogLevel[i])
    \/ \E sources \in SourceFilters : SetSourceFilter(sources)

FilterInit == InitBuffer({1, MaxCapacity}) /\ InitRequests /\ InitProtocol

FilterSpec == FilterInit /\ [][FilterNext]_vars

\* DELETE /logs next to everything it could disturb: a live subscription,
\* filter settings that are not the defaults, and a stored log request
ClearNext ==
    \/ AppendStore("w1")
    \/ AppendSend("w1")
    \/ Clear
    \/ Subscribe("s1")
    \/ Recv("s1")
    \/ SetMinimumLevel("Warning")
    \/ SetSourceFilter(Some({"cli"}))
    \/ \E u \in Requesters : HandleCreateRequest(u, RaceDevice)

ClearInit == InitBuffer({MaxCapacity}) /\ InitRequests /\ InitProtocol

ClearSpec == ClearInit /\ [][ClearNext]_vars

\* the buffer with the write lock made visible: concurrent appends take the
\* lock, write, update the indices and release before they broadcast, while
\* get_all and clear wait for the lock and a subscriber reads its stream
LockNext ==
    \/ \E w \in Workers : AppendLock(w)
    \/ \E w \in Workers : AppendWrite(w)
    \/ \E w \in Workers : AppendUnlock(w)
    \/ \E w \in Workers : AppendSend(w)
    \/ LockedClear
    \/ GetAll
    \/ Subscribe("s1")
    \/ Recv("s1")

LockInit == InitBuffer(1..MaxCapacity) /\ InitRequests /\ InitProtocol

LockSpec == LockInit /\ [][LockNext]_vars

Next == BufferNext \/ StreamNext \/ LockNext \/ FilterNext \/ ClearNext \/ RequestNext \/ PollNext \/ ProtocolNext \/ RaceNext \/ ServiceNext

Spec == Init /\ [][Next]_vars

(***************************************************************************)
(* Claims about the buffer                                                 *)
(***************************************************************************)
\* C1: with capacity >= 1, after any appends and clears get_all() is a contiguous
\* suffix, in receipt order, of the entries appended since the latest clear, and
\* never longer than the capacity.
C1_ReceiptOrder ==
    inner.capacity >= 1 =>
        /\ IsSuffix(get_all(inner), SinceClear)
        /\ Len(get_all(inner)) <= inner.capacity

\* a wrapped-around buffer, refilled after a clear
C1_Witness ==
    /\ inner.capacity = 2
    /\ clears = 1
    /\ clearedAt = 1
    /\ inner.start_index = 1
    /\ get_all(inner) = <<3, 4>>

\* C2: with capacity c >= 1 and no clear, after n appends get_all() is exactly the
\* last min(n, c) entries in order; after c+1 appends entry 1 is gone and
\* entries 2..c+1 are there in order.
C2_OldestFirstEviction ==
    (inner.capacity >= 1 /\ clears = 0) =>
        /\ get_all(inner) = LastN(Serials(0, received), Min(received, inner.capacity))
        /\ received = inner.capacity + 1 => get_all(inner) = Serials(1, inner.capacity + 1)

\* capacity + 1 appends, no clear: the first entry was evicted
C2_Witness ==
    /\ inner.capacity = 2
    /\ clears = 0
    /\ received = 3
    /\ get_all(inner) = <<2, 3>>

\* C3: after a clear in any reachable state get_all() is empty and count() is 0,
\* the next append appears alone, and later appends accumulate in receipt order
\* up to the capacity.
C3_ClearResets ==
    clears > 0 =>
        /\ received = clearedAt => (get_all(inner) = <<>> /\ count(inner) = 0)
        /\ received = clearedAt + 1 => get_all(inner) = <<received>>
        /\ received - clearedAt <= inner.capacity => get_all(inner) = SinceClear

\* C4: a subscription never receives an entry whose append had finished before
\* the subscription was created.
C4_NoReplay ==
    \A s \in Subs :
        rx[s].active =>
            (Range(rx[s].got) \cup Range(rx[s].queue)) \cap rx[s].before = {}

\* a subscriber created after entry 1 was appended has received a later entry
\* while entry 1 is still stored
C4_Witness ==
    \E s \in Subs :
        /\ rx[s].active
        /\ 1 \in rx[s].before
        /\ 1 \in Range(get_all(inner))
        /\ rx[s].got # <<>>

\* C5: whatever the subscribers (none, or one whose queue is full), every append
\* call returns normally and has stored its entry.
C5_AppendIgnoresSubscribers ==
    /\ lastAppend # "panic"
    /\ \A e \in (clearedAt + 1)..received :
           e > received - inner.capacity => e \in Range(get_all(inner))

\* C6: for every capacity the configuration can supply, an append completes
\* normally and its entry is then the newest element of get_all().
C6_IngestionAlwaysSucceeds ==
    received > clearedAt =>
        /\ lastAppend # "panic"
        /\ get_all(inner) # <<>>
        /\ Last(get_all(inner)) = received

(***************************************************************************)
(* Claims about the request manager                                        *)
(***************************************************************************)
Terminal == {"Fulfilled", "Expired", "Cancelled"}

\* status Pending and not past its expiry
Live(request, t) == request.status = "Pending" /\ ~(t > request.expires_at)

\* the status stored for a request id, "absent" when no stored request has it
StatusOf(m, request_id) ==
    IF \E p \in m : p.v.id = request_id
    THEN (CHOOSE p \in m : p.v.id = request_id).v.status
    ELSE "absent"

\* C7: each device id has at most one live request, and at most one stored entry
\* at all: a new request overwrites the device's previous entry.
C7_OneLivePerDevice ==
    \A d \in Devices :
        /\ Cardinality({p \in requests : p.v.device_id = d /\ Live(p.v, now)}) <= 1
        /\ Cardinality({p \in requests : p.v.device_id = d}) <= 1

\* a create_request has just replaced a live request and its own is live
C7_Witness ==
    /\ ret.op = "create_request"
    /\ ret.replaced = "Pending"
    /\ ticks = 0
    /\ \E p \in requests : p.k = ret.device_id /\ p.v.id = 2 /\ Live(p.v, now)

\* C8: the status of a request id changes only from Pending to a terminal status;
\* a terminal status never changes, and an id that left the store never returns.
C8_TerminalIsFinal ==
    [][/\ \A p \in requests : \A q \in requests' :
              q.v.id = p.v.id =>
                  (q.v.status = p.v.status
                   \/ (p.v.status = "Pending" /\ q.v.status \in Terminal))
       /\ \A q \in requests' :
              (\A p \in requests : p.v.id # q.v.id) =>
                  (q.v.status = "Pending" /\ q.v.id = nextId)]_vars

\* a fulfill was attempted on a cancelled request, which stayed cancelled
C8_Witness ==
    /\ ret.op = "fulfill"
    /\ ret.val = "AlreadyProcessed"
    /\ StatusOf(requests, ret.id) = "Cancelled"

\* C9: create_request stores and returns a request with a fresh id, the caller as
\* owner, status Pending, no fulfillment time or path and expiry = creation + 24h;
\* it is then the device's only entry and get_pending at that moment returns it.
C9_CreateRequest ==
    ret.op = "create_request" =>
        LET r == ret.val
            d == ret.device_id
        IN /\ r.id = nextId - 1
           /\ r.id \notin superseded
           /\ find_by_id(requests, r.id) = {d}
           /\ r.user_id = ret.user_id
           /\ r.device_id = d
           /\ r.status = "Pending"
           /\ r.fulfilled_at = None
           /\ r.log_file_path = None
           /\ r.requested_at = now
           /\ r.expires_at = now + TTL_HOURS
           /\ {p \in requests : p.k = d} = {[k |-> d, v |-> r]}
           /\ get_pending(requests, d, now) = Some(r)

\* a create_request has just replaced a fulfilled request
C9_Witness ==
    /\ ret.op = "create_request"
    /\ ret.replaced = "Fulfilled"

\* C10: a request replaced by a later create_request for its device is gone:
\* get_pending never returns its id, and fulfill of its id fails with NotFound
\* and changes nothing, so the replacing request stays as it was.
C10_SupersededIsGone ==
    /\ \A i \in superseded :
          /\ find_by_id(requests, i) = {}
          /\ \A d \in Devices :
                 get_pending(requests, d, now) # None =>
                     get_pending(requests, d, now)[1].id # i
          /\ fulfill_result(requests, i) = "NotFound"
          /\ \A f \in Paths : fulfill_store(requests, i, f, now) = requests
    /\ (ret.op = "get_pending" /\ ret.val # None) => ret.val[1].id \notin superseded
    /\ (ret.op = "fulfill" /\ ret.id \in superseded) => ret.val = "NotFound"
    /\ (ret.op = "create_request" /\ ret.replaced # "none") =>
          get_pending(requests, ret.device_id, now) = Some(ret.val)

\* after two creates for one device, fulfill of the first id failed with NotFound
\* and the second request is still pending
C10_Witness ==
    /\ ret.op = "fulfill"
    /\ ret.id = 1
    /\ 1 \in superseded
    /\ ret.val = "NotFound"
    /\ StatusOf(requests, 2) = "Pending"

\* C11: get_pending never returns a request past its expiry, whether or not a
\* sweep has run: a stored Pending entry past its expiry is changed to Expired
\* (and nothing else of it) and none is returned; an entry that is not Pending
\* gives none and stays as it was; a returned request is the live stored entry.
C11_GetPendingNeverExpired ==
    /\ \A d \in Devices :
          get_pending(requests, d, now) # None =>
              Live(get_pending(requests, d, now)[1], now)
    /\ ret.op = "get_pending" =>
          LET d == ret.device_id IN
          /\ ret.val # None =>
                /\ Live(ret.val[1], now)
                /\ ret.was = "Pending"
                /\ {p \in requests : p.k = d} = {[k |-> d, v |-> ret.val[1]]}
          /\ ret.val = None =>
                /\ ret.was = "none" => ~contains_key(requests, d)
                /\ ret.was = "Pending" =>
                      /\ contains_key(requests, d)
                      /\ get(requests, d).status = "Expired"
                      /\ now > get(requests, d).expires_at
                /\ ret.was \in Terminal =>
                      /\ contains_key(requests, d)
                      /\ get(requests, d).status = ret.was

\* get_pending found a Pending entry past its expiry and marked it, no sweep involved
C11_Witness ==
    /\ ret.op = "get_pending"
    /\ ret.was = "Pending"
    /\ ret.val = None
    /\ get(requests, ret.device_id).status = "Expired"

\* C12: fulfill fails with NotFound when no stored request has the id and with
\* AlreadyProcessed when that request is not Pending, and then changes nothing;
\* otherwise it sets Fulfilled, the fulfillment time and the path on that entry
\* alone, after which a second fulfill of the id fails with AlreadyProcessed and
\* get_pending for the device returns none.
C12_Fulfill ==
    [][\A i \in Ids, f \in Paths :
          Fulfill(i, f) =>
              LET was == StatusOf(requests, i) IN
              /\ was = "absent" => ret'.val = "NotFound" /\ requests' = requests
              /\ was \in Terminal => ret'.val = "AlreadyProcessed" /\ requests' = requests
              /\ was = "Pending" =>
                    LET p == CHOOSE q \in requests : q.v.id = i IN
                    /\ ret'.val = "Ok"
                    /\ requests' = (requests \ {p}) \cup
                          {[p EXCEPT !.v.status = "Fulfilled",
                                     !.v.fulfilled_at = Some(now),
                                     !.v.log_file_path = Some(f)]}
                    /\ fulfill_result(requests', i) = "AlreadyProcessed"
                    /\ fulfill_store(requests', i, f, now) = requests'
                    /\ get_pending(requests', p.k, now) = None]_vars

\* a second fulfill of a fulfilled request has just failed
C12_Witness ==
    /\ ret.op = "fulfill"
    /\ ret.val = "AlreadyProcessed"
    /\ StatusOf(requests, ret.id) = "Fulfilled"
    /\ \E p \in requests : p.v.id = ret.id /\ p.v.fulfilled_at # None
                           /\ p.v.log_file_path # None

\* C13: cancel fails with NotFound when the device has no entry and with
\* AlreadyProcessed when its entry is not Pending, and then changes nothing;
\* otherwise it changes only that entry's status, to Cancelled, after which
\* get_pending for the device returns none and a second cancel fails with
\* AlreadyProcessed.
C13_Cancel ==
    [][\A d \in Devices :
          Cancel(d) =>
              LET was == Replaced(requests, d) IN
              /\ was = "none" => ret'.val = "NotFound" /\ requests' = requests
              /\ was \in Terminal => ret'.val = "AlreadyProcessed" /\ requests' = requests
              /\ was = "Pending" =>
                    LET p == CHOOSE q \in requests : q.k = d IN
                    /\ ret'.val = "Ok"
                    /\ requests' = (requests \ {p}) \cup
                          {[p EXCEPT !.v.status = "Cancelled"]}
                    /\ get_pending(requests', d, now) = None
                    /\ cancel_result(requests', d) = "AlreadyProcessed"
                    /\ cancel_store(requests', d) = requests']_vars

\* a second cancel of a cancelled request has just failed
C13_Witness ==
    /\ ret.op = "cancel"
    /\ ret.val = "AlreadyProcessed"
    /\ contains_key(requests, ret.device_id)
    /\ get(requests, ret.device_id).status = "Cancelled"

\* C14: cleanup_expired at time now marks every Pending entry past its expiry as
\* Expired, removes exactly the entries that are then not Pending and were
\* created 7 days or more before now, keeps every other entry (a live Pending
\* entry as it was), and returns the number removed.
C14_CleanupExpired ==
    [][CleanupExpired =>
          LET Past(p) == p.v.status = "Pending" /\ now > p.v.expires_at
              Marked(p) == IF Past(p) THEN [p EXCEPT !.v.status = "Expired"] ELSE p
              Old(p) == now - p.v.requested_at >= RETENTION_DAYS * 24
              Removed == {p \in requests : Marked(p).v.status # "Pending" /\ Old(p)}
          IN  /\ requests' = {Marked(p) : p \in requests \ Removed}
              /\ \A p \in requests : Live(p.v, now) => p \in requests'
              /\ ret'.val = Cardinality(Removed)
              /\ ret'.val = Cardinality(requests) - Cardinality(requests')]_vars

\* a sweep removed one old request and kept a live one
C14_Witness ==
    /\ ret.op = "cleanup_expired"
    /\ ret.val = 1
    /\ \E p \in requests : Live(p.v, now)

\* C15: stats counts by effective status: a stored Pending entry past its expiry
\* counts as expired, not pending; the four counts add up to total, the number
\* of stored entries; stats changes no stored entry.
C15_Stats ==
    [][Stats =>
          LET Eff(p) == IF p.v.status = "Pending" /\ now > p.v.expires_at
                        THEN "Expired" ELSE p.v.status
              N(st) == Cardinality({p \in requests : Eff(p) = st})
          IN  /\ requests' = requests
              /\ ret'.val.pending = N("Pending")
              /\ ret'.val.fulfilled = N("Fulfilled")
              /\ ret'.val.expired = N("Expired")
              /\ ret'.val.cancelled = N("Cancelled")
              /\ ret'.val.total = Cardinality(requests)
              /\ ret'.val.total = ret'.val.pending + ret'.val.fulfilled
                                    + ret'.val.expired + ret'.val.cancelled]_vars

\* stats counted a stored Pending entry as expired, next to a live one
C15_Witness ==
    /\ ret.op = "stats"
    /\ ret.val.expired = 1
    /\ ret.val.pending = 1
    /\ \A p \in requests : p.v.status = "Pending"

(***************************************************************************)
(* Claims about the protected endpoints                                    *)
(***************************************************************************)
\* the device's stored entry, if it is a live pending request
LiveFor(m, device_id, t) == {p \in m : p.k = device_id /\ Live(p.v, t)}

\* C16: a poll for device D by caller C answers empty when D has no live
\* pending request, the request's id and creation and expiry times when D has
\* one owned by C, and forbidden when D has one owned by another user; the only
\* change a poll makes to the store is Pending to Expired on D's entry past its
\* expiry.
C16_Poll ==
    [][ret'.op = "handle_poll" =>
          LET u == ret'.user_id
              d == ret'.device_id
          IN
              /\ LiveFor(requests, d, now) = {} =>
                    ret'.val = [status |-> "OK", body |-> None]
              /\ \A p \in LiveFor(requests, d, now) :
                    IF p.v.user_id = u
                    THEN ret'.val =
                           [status |-> "OK",
                            body |-> Some([request_id |-> to_string(p.v.id),
                                           requested_at |-> to_rfc3339(p.v.requested_at),
                                           expires_at |-> to_rfc3339(p.v.expires_at)])]
                    ELSE ret'.val.status = "FORBIDDEN"
              /\ requests' =
                    {IF p.k = d /\ p.v.status = "Pending" /\ now > p.v.expires_at
                     THEN [p EXCEPT !.v.status = "Expired"] ELSE p : p \in requests}]_vars

\* a poll by another user than the owner of the device's live request
C16_Witness ==
    /\ ret.op = "handle_poll"
    /\ ret.val.status = "FORBIDDEN"
    /\ LiveFor(requests, ret.device_id, now) # {}

\* the step is handle_upload's parse of the request id and its checks: every
\* call sets ret to its own operation
UploadChecked == ret'.op = "handle_upload" /\ ret'.at = "check" /\ up[ret'.h] = Idle

\* C17: an upload naming request id R for device D whose live pending request
\* has another id is rejected as bad request (mismatch), writes no file and
\* leaves the request store as it was, whoever calls and also when R is or was
\* the id of a request for another device.
C17_UploadMismatch ==
    [][(/\ UploadChecked
        /\ ret'.request_id # None
        /\ \E p \in LiveFor(requests, ret'.device_id, now) :
               p.v.id # ret'.request_id[1]) =>
              /\ ret'.val = [status |-> "BAD_REQUEST",
                             message |-> "Request ID does not match pending request"]
              /\ storage' = storage
              /\ requests' = requests
              /\ up' = up]_vars

\* an upload was rejected as a mismatch although its request id is that of a
\* live request of another device
C17_Witness ==
    /\ ret.op = "handle_upload"
    /\ ret.at = "check"
    /\ ret.val.status = "BAD_REQUEST"
    /\ ret.request_id # None
    /\ \E p \in requests : /\ p.v.id = ret.request_id[1]
                           /\ p.k # ret.device_id
                           /\ Live(p.v, now)
    /\ storage = {}

\* C18: an upload with the id of device D's live pending request by a caller
\* who is not its owner is rejected as forbidden, writes no file and leaves
\* the request store as it was: the request is still Pending and the owner's
\* upload of it passes the checks.
C18_UploadForbidden ==
    [][UploadChecked /\ ret'.request_id # None =>
          \A p \in LiveFor(requests, ret'.device_id, now) :
              p.v.id = ret'.request_id[1] /\ p.v.user_id # ret'.user_id =>
                  /\ ret'.val.status = "FORBIDDEN"
                  /\ storage' = storage
                  /\ requests' = requests
                  /\ up' = up
                  /\ p \in LiveFor(requests', ret'.device_id, now)
                  /\ handle_upload_check(requests', p.v.user_id, ret'.device_id,
                         to_string(p.v.id), now) = Continue]_vars

\* an upload by another user than the owner was rejected, the request is live
C18_Witness ==
    /\ ret.op = "handle_upload"
    /\ ret.at = "check"
    /\ ret.val.status = "FORBIDDEN"
    /\ \E p \in LiveFor(requests, ret.device_id, now) : p.v.id = ret.request_id[1]
    /\ storage = {}

\* C19: an upload naming a request id for a device without a live pending
\* request (no entry, or an entry expired, cancelled or fulfilled) is rejected
\* as not-found and writes no file; so is a second upload of a request id
\* after the upload that fulfilled it. No route cancels a request, so the
\* cancelled case is checked on the store with an entry's status replaced.
C19_UploadNotFound ==
    [][(/\ UploadChecked
        /\ ret'.request_id # None
        /\ LiveFor(requests, ret'.device_id, now) = {}) =>
              /\ ret'.val.status = "NOT_FOUND"
              /\ storage' = storage
              /\ up' = up
              /\ \A p \in requests' : p.k = ret'.device_id => p.v.status \in Terminal
              /\ \A p \in requests, st \in Terminal :
                    handle_upload_check(insert(requests, p.k, [p.v EXCEPT !.status = st]),
                        ret'.user_id, p.k, to_string(ret'.request_id[1]), now).status
                      = "NOT_FOUND"]_vars

\* a second upload of a request id whose first upload was stored and fulfilled
C19_Witness ==
    /\ ret.op = "handle_upload"
    /\ ret.at = "check"
    /\ ret.val.status = "NOT_FOUND"
    /\ \E p \in requests : /\ p.k = ret.device_id
                           /\ p.v.id = ret.request_id[1]
                           /\ p.v.status = "Fulfilled"
                           /\ \E f \in storage : f.request_id = p.v.id /\ f.complete

\* C20: when save_upload fails in an upload that passed the checks, the upload
\* answers with a server error and ends without calling fulfill; the request
\* store is as it was, so a request that was Pending still is, without
\* fulfillment time or path, and while it is live the same upload passes the
\* checks again and its fulfill would succeed.
C20_SaveFailure ==
    [][(/\ ret'.op = "handle_upload"
        /\ ret'.at = "save"
        /\ ret'.saved # "Ok"
        /\ up[ret'.h].pc = "save") =>
          LET h == ret'.h IN
              /\ ret'.val = [status |-> "INTERNAL_SERVER_ERROR",
                             message |-> "Failed to save logs"]
              /\ up'[h] = Idle
              /\ requests' = requests
              /\ \A p \in requests' :
                    p.v.id = up[h].request_id /\ p.v.status = "Pending" =>
                        /\ p.v.fulfilled_at = None
                        /\ p.v.log_file_path = None
                        /\ Live(p.v, now) /\ p.k = up[h].device_id =>
                              /\ handle_upload_check(requests', up[h].user_id, p.k,
                                     to_string(p.v.id), now) = Continue
                              /\ fulfill_result(requests', p.v.id) = "Ok"]_vars

\* save_upload has failed and the request is still live, pending and unstamped
C20_Witness ==
    /\ ret.op = "handle_upload"
    /\ ret.at = "save"
    /\ ret.val.status = "INTERNAL_SERVER_ERROR"
    /\ up = [h \in Uploaders |-> Idle]
    /\ \E p \in LiveFor(requests, ret.device_id, now) :
           /\ p.v.id = ret.request_id[1]
           /\ p.v.fulfilled_at = None
           /\ p.v.log_file_path = None

\* the step is the fulfill call of an upload and the response after it
UploadFulfilled == ret'.op = "handle_upload" /\ ret'.at = "fulfill" /\ up[ret'.h].pc = "fulfill"

\* C21: an upload that passed the checks and whose batch was saved, with no
\* operation on device D in between (D's entry is still the Pending request
\* the upload names), is answered created; then the batch is the file under
\* (owner, D, request id), the request is Fulfilled with the fulfillment time
\* and the path set, and a poll by the owner for D answers empty.
C21_UploadSucceeds ==
    [][UploadFulfilled =>
          LET h == ret'.h
              u == up[ret'.h].user_id
              d == up[ret'.h].device_id
              i == up[ret'.h].request_id
          IN  \A p \in requests :
                  p.k = d /\ p.v.id = i /\ p.v.status = "Pending" =>
                      /\ p.v.user_id = u
                      /\ ret'.val = [status |-> "CREATED"]
                      /\ read_upload(storage', u, d, i) =
                             {[user_id |-> u, dir |-> sanitize_filename(d),
                               request_id |-> i, from |-> h, complete |-> TRUE]}
                      /\ requests' = (requests \ {p}) \cup
                            {[p EXCEPT !.v.status = "Fulfilled",
                                       !.v.fulfilled_at = Some(now),
                                       !.v.log_file_path = Some(<<u, d, i>>)]}
                      /\ handle_poll(requests', u, d, now)
                             = [status |-> "OK", body |-> None]]_vars

\* an upload for the device whose directory name differs from its id was
\* answered created: file written, request fulfilled
C21_Witness ==
    /\ ret.op = "handle_upload"
    /\ ret.at = "fulfill"
    /\ ret.val.status = "CREATED"
    /\ ret.device_id = "dev.B"
    /\ \E p \in requests : /\ p.k = ret.device_id
                           /\ p.v.id = ret.request_id[1]
                           /\ p.v.status = "Fulfilled"
                           /\ read_upload(storage, p.v.user_id, p.k, p.v.id) # {}

\* C22: no upload is accepted (batch persisted, created returned) for a
\* request that is already fulfilled or whose expiry has passed: at every
\* fulfill step answered created, the request named is Pending and the clock
\* is not past its expiry.
C22_NoLateOrDuplicateUpload ==
    [][UploadFulfilled /\ ret'.val.status = "CREATED" =>
          \A p \in requests :
              p.v.id = up[ret'.h].request_id =>
                  /\ p.v.status = "Pending"
                  /\ ~(now > p.v.expires_at)]_vars

\* C25: the fulfill call an upload makes after its checks and its save have
\* succeeded never fails: the fulfill step of handle_upload never answers
\* the 'Failed to fulfill request' server error.
C25_FulfillNeverFails ==
    [][UploadFulfilled =>
          ret'.val # [status |-> "INTERNAL_SERVER_ERROR",
                      message |-> "Failed to fulfill request"]]_vars

\* C23: when uploads race for a device's pending request at most one of them
\* wins: no request id collects more than one created response, a request
\* becomes Fulfilled only in the fulfill step of the upload answered created
\* for it, and a Fulfilled request never becomes anything else.
C23_AtMostOneWinner ==
    [][/\ \A i \in Ids : created'[i] <= 1
       /\ \A p \in requests' :
              (p.v.status = "Fulfilled" /\ p \notin requests) =>
                  /\ UploadFulfilled
                  /\ ret'.val = [status |-> "CREATED"]
                  /\ p.v.id = up[ret'.h].request_id
                  /\ StatusOf(requests, p.v.id) = "Pending"
                  /\ created[p.v.id] = 0
                  /\ created'[p.v.id] = 1
       /\ \A p \in requests :
              p.v.status = "Fulfilled" =>
                  \A q \in requests' : q.v.id = p.v.id => q = p]_vars

\* two uploads passed the checks for the same request; one was answered
\* created and the other's fulfill call has just failed on the request the
\* first one fulfilled
C23_Witness ==
    /\ ret.op = "handle_upload"
    /\ ret.at = "fulfill"
    /\ ret.val.status = "INTERNAL_SERVER_ERROR"
    /\ created[ret.request_id[1]] = 1
    /\ StatusOf(requests, ret.request_id[1]) = "Fulfilled"

\* C24: of two uploads racing for a device's pending request, the one that
\* loses is answered with the stale/mismatch bad request error: an upload
\* whose fulfill step finds the request it passed the checks for already
\* fulfilled by the other upload is answered 400.
C24_LoserGetsBadRequest ==
    [][(/\ UploadFulfilled
        /\ StatusOf(requests, up[ret'.h].request_id) = "Fulfilled")
           => ret'.val.status = "BAD_REQUEST"]_vars

\* C26: the running service sweeps on its own schedule, no caller having to
\* read the device's entry: a Pending request past its expiry is eventually
\* no longer Pending, and a request in a terminal status older than the
\* retention window is eventually removed from the store.
C26_SweepsOnItsOwn ==
    \A i \in Ids :
        /\ (\E p \in requests : /\ p.v.id = i
                                /\ p.v.status = "Pending"
                                /\ now > p.v.expires_at)
               ~> (StatusOf(requests, i) # "Pending")
        /\ (\E p \in requests : /\ p.v.id = i
                                /\ p.v.status \in Terminal
                                /\ p.v.requested_at <= now - RetentionHours)
               ~> (StatusOf(requests, i) = "absent")

\* the step is the broadcast of entry e by an append call
SendStep(e) == \E w \in Workers : inflight[w] = e /\ e # 0 /\ inflight'[w] = 0

LevelRank(s) ==
    CASE s \in {"trace", "TRACE", "Trace"} -> 0
      [] s \in {"debug", "DEBUG", "Debug"} -> 1
      [] s \in {"notice", "NOTICE", "Notice"} -> 3
      [] s \in {"warning", "WARNING", "Warning"} -> 4
      [] s \in {"error", "ERROR", "Error"} -> 5
      [] s \in {"critical", "CRITICAL", "Critical"} -> 6
      [] OTHER -> 2

\* the entries of seq, in order, whose level ranks at least min and whose
\* source is allowed
RECURSIVE Admitted(_, _, _, _)
Admitted(seq, c, min, allow) ==
    IF seq = <<>> THEN <<>>
    ELSE LET e == Head(seq)
             rest == Admitted(Tail(seq), c, min, allow)
         IN  IF /\ LevelRank(c[e].level) >= min
                /\ (allow = None \/ c[e].source \in allow[1])
             THEN <<e>> \o rest
             ELSE rest

\* C29: filtering is read-side only: a change of the minimum level or of the
\* source filter leaves get_all() as it was, an append stores the entry the
\* same way under every setting, and get_filtered() is the subsequence of
\* get_all(), in order, of the entries whose level rank is at least the
\* minimum level and whose source is in the allow-list when one is set.
C29_FilterReadSide ==
    [][/\ get_filtered(inner', content')
             = Admitted(get_all(inner'), content',
                        discriminant(inner'.min_level), inner'.source_filter)
       /\ (inner'.min_level # inner.min_level \/ inner'.source_filter # inner.source_filter)
             => /\ get_all(inner') = get_all(inner)
                /\ content' = content
       /\ (received' = received + 1 /\ ~append_panics(inner))
             => /\ get_all(inner') = LastN(Append(get_all(inner), received + 1),
                                           Min(inner.capacity, Len(get_all(inner)) + 1))
                /\ inner'.min_level = inner.min_level
                /\ inner'.source_filter = inner.source_filter]_vars

\* with minimum level info and the cli source allowed, a DEBUG entry and an
\* entry of another source are stored and filtered out, and an entry whose
\* level names no level is admitted
C29_Witness ==
    /\ inner.min_level = "Info"
    /\ inner.source_filter = Some({"cli"})
    /\ Len(get_all(inner)) = 2
    /\ \E e \in Range(get_all(inner)) : content[e] = [level |-> "verbose", source |-> "cli"]
    /\ \E e \in Range(get_all(inner)) : content[e].level = "DEBUG"
    /\ Len(get_filtered(inner, content)) = 1

\* C28: clear() changes only the stored sequence: the subscriptions stay as
\* they were, registered with everything they hold, the filter settings and
\* the capacity are unchanged, no request and no upload changes, and every
\* entry broadcast after a clear reaches every registered subscriber.
C28_ClearFrame ==
    [][/\ clears' = clears + 1 =>
              /\ get_all(inner') = <<>>
              /\ inner' = [inner EXCEPT !.entries = <<>>, !.start_index = 0, !.count = 0]
              /\ rx' = rx
              /\ content' = content
              /\ requests' = requests
              /\ UNCHANGED <<nextId, superseded, now, up, storage, created>>
       /\ \A e \in 1..MaxAppends :
              (clears > 0 /\ SendStep(e)) =>
                  \A s \in Subs :
                      rx[s].active => /\ rx'[s].active
                                      /\ rx'[s].queue # <<>>
                                      /\ Last(rx'[s].queue) = e]_vars

\* a subscriber that was delivered entry 1 before the clear holds entry 3,
\* appended after it; the level and source filters set before are in place
\* and the log request is stored
C28_Witness ==
    /\ clears = 1
    /\ clearedAt = 2
    /\ rx["s1"].active
    /\ rx["s1"].got = <<1>>
    /\ rx["s1"].queue = <<3>>
    /\ get_all(inner) = <<3>>
    /\ inner.min_level = "Warning"
    /\ inner.source_filter = Some({"cli"})
    /\ requests # {}

\* C30: a subscriber's cancellation removes only its own registration: at
\* the step in which a receiver is dropped the other subscribers and the
\* stored sequence are unchanged and an append made next succeeds, and every
\* entry broadcast reaches every subscriber that is registered.
C30_DisconnectFrame ==
    [][/\ \A s \in Subs :
              (rx[s].active /\ ~rx'[s].active) =>
                  /\ \A t \in Subs \ {s} : rx'[t] = rx[t]
                  /\ get_all(inner') = get_all(inner)
                  /\ ~append_panics(inner')
       /\ \A e \in 1..MaxAppends :
              SendStep(e) =>
                  \A t \in Subs :
                      rx[t].active => /\ rx'[t].active
                                      /\ rx'[t].queue # <<>>
                                      /\ Last(rx'[t].queue) = e]_vars

\* C31: append broadcasts an entry only after its change of the stored
\* sequence is complete and the write lock is released: no append that is
\* inside the lock has its entry with a subscriber, at most one append is
\* inside the lock, and whenever a subscriber holding an entry can read, the
\* buffer is the stored sequence of a state that has that entry's append and
\* every earlier one applied.
C31_BroadcastAfterUnlock ==
    /\ Cardinality({w \in Workers : phase[w] # "idle"}) <= 1
    /\ \A s \in Subs :
           rx[s].active =>
               \A e \in Range(rx[s].got) \cup Range(rx[s].queue) :
                   /\ e \in 1..received
                   /\ \A w \in Workers : inflight[w] # e
                   /\ read_allowed =>
                          get_all(inner) = LastN(SinceClear, Min(inner.capacity, Len(SinceClear)))

\* the subscriber was sent entry 1 while the append of entry 2, which holds
\* the lock no longer, has not broadcast yet; the buffer shows both
C31_Witness ==
    /\ rx["s1"].got = <<1>>
    /\ LockFree
    /\ inflight["w2"] = 2
    /\ get_all(inner) = <<1, 2>>

\* C32: a get_all() running next to appends and clears returns the stored
\* sequence of one state between complete operations: the newest entries, up
\* to capacity of them and in receipt order, of the appends c+1..n completed
\* since some clear, never a half-applied append.
C32_SnapshotIsAState ==
    \E c \in 0..received :
        \E n \in c..received :
            snap = LastN(Serials(c, n), Min(inner.capacity, n - c))

\* a full buffer was read as <<2, 3>> and an append has since overwritten the
\* oldest slot without having advanced the start index yet
C32_Witness ==
    /\ inner.capacity = 2
    /\ snap = <<2, 3>>
    /\ \E w \in Workers : phase[w] = "written" /\ inflight[w] = 4
    /\ inner.entries = <<3, 4>>

\* C34: live delivery order matches stored order: any two entries a
\* subscriber was delivered that are both in get_all() were delivered in the
\* order in which get_all() holds them (receipt order).
C34_DeliveryOrder ==
    \A s \in Subs :
        rx[s].active =>
            \A i, j \in 1..Len(rx[s].got) :
                (/\ i < j
                 /\ read_allowed
                 /\ rx[s].got[i] \in Range(get_all(inner))
                 /\ rx[s].got[j] \in Range(get_all(inner)))
                    => \E k, l \in 1..Len(get_all(inner)) :
                           /\ k < l
                           /\ get_all(inner)[k] = rx[s].got[i]
                           /\ get_all(inner)[l] = rx[s].got[j]

\* the times around a request's expiry, and the present
TimesAround(request) ==
    {request.expires_at - 1, request.expires_at, request.expires_at + 1, now}

\* C33: the expiration triggers agree: for every stored Pending entry and
\* every time t, get_pending reports none and marks the entry Expired, the
\* sweep marks it Expired, and stats counts it as expired instead of pending,
\* each exactly when t is later than the stored expiry time.
C33_ExpiryAgreement ==
    \A p \in requests :
        p.v.status = "Pending" =>
            \A t \in TimesAround(p.v) :
                LET expired == t > p.v.expires_at IN
                /\ (get_pending(requests, p.k, t) = None) <=> expired
                /\ (get_pending(requests, p.k, t) = Some(p.v)) <=> ~expired
                /\ (StatusOf(get_pending_store(requests, p.k, t), p.v.id) = "Expired") <=> expired
                /\ (StatusOf(mark_expired(requests, t), p.v.id) = "Expired") <=> expired
                /\ (stats({p}, t).expired = 1) <=> expired
                /\ (stats({p}, t).pending = 1) <=> ~expired

\* two stored Pending entries, one past its expiry and not yet marked, the
\* other exactly at its expiry time
C33_Witness ==
    \E p, q \in requests :
        /\ p.v.status = "Pending"
        /\ q.v.status = "Pending"
        /\ now > p.v.expires_at
        /\ now = q.v.expires_at

\* C35: no orphaned batch: once no upload for the request is still on its
\* way to fulfill, every completely written batch in storage belongs to a
\* request that was fulfilled with a created response.
C35_NoOrphanedBatch ==
    \A f \in storage :
        (/\ f.complete
         /\ \A h \in Uploaders : ~(up[h].pc = "fulfill" /\ up[h].request_id = f.request_id))
            => created[f.request_id] >= 1

\* C36: a request's batch is persisted at most once: the save step of an
\* upload for a request that another upload has already been answered
\* created for (an upload that can only end in an error) leaves the batch
\* stored for that request as the winner wrote it.
C36_BatchNotOverwritten ==
    [][(/\ ret'.op = "handle_upload"
        /\ ret'.at = "save"
        /\ up[ret'.h].pc = "save"
        /\ created[up[ret'.h].request_id] >= 1)
           => read_upload(storage', up[ret'.h].user_id, up[ret'.h].device_id,
                          up[ret'.h].request_id)
                  = read_upload(storage, up[ret'.h].user_id, up[ret'.h].device_id,
                                up[ret'.h].request_id)]_vars

\* the step belongs to an upload whose request id parsed
UploadNaming == ret'.op = "handle_upload" /\ ret'.request_id # None

\* C37 as stated: an upload naming request id R never changes the status of
\* a request with a different id: every stored request with another id is
\* stored unchanged after each step of the upload.
C37_OtherRequestsUntouched ==
    [][UploadNaming =>
          \A p \in requests : p.v.id # ret'.request_id[1] => p \in requests']_vars

\* C37, amended: an upload naming request id R never fulfills a request with
\* a different id; a request superseding R stays as it is through the
\* upload's save and fulfill steps, and the only change the upload makes to
\* a request with another id is in its check step, where get_pending marks
\* the device's Pending entry Expired when its expiry has passed.
C37_OtherRequestsOnlyExpire ==
    [][UploadNaming =>
          /\ \A p \in requests :
                 p.v.id # ret'.request_id[1] =>
                     \/ p \in requests'
                     \/ /\ ret'.at = "check"
                        /\ p.k = ret'.device_id
                        /\ p.v.status = "Pending"
                        /\ now > p.v.expires_at
                        /\ requests' = (requests \ {p}) \cup {[p EXCEPT !.v.status = "Expired"]}
          /\ \A q \in requests' :
                 q.v.id # ret'.request_id[1] =>
                     (q.v.status = "Fulfilled" => q \in requests)]_vars

\* request 2 superseded request 1 on the device while the upload naming
\* request 1 was under way; the upload's fulfill has failed and request 2 is
\* still Pending, with nothing stored for it
C37_Witness ==
    /\ ret.op = "handle_upload"
    /\ ret.at = "fulfill"
    /\ ret.request_id = Some(1)
    /\ ret.val.status = "INTERNAL_SERVER_ERROR"
    /\ \E p \in requests : /\ p.k = ret.device_id
                           /\ p.v.id = 2
                           /\ p.v.status = "Pending"
                           /\ read_upload(storage, p.v.user_id, p.k, 2) = {}

\* C38: fulfill and cancel respect expiry: a stored Pending request whose
\* expiry time has passed is never made Fulfilled or Cancelled, and every
\* Fulfilled request has a fulfillment time not later than its expiry time.
C38_TerminalRespectsExpiry ==
    [][/\ \A p \in requests :
              (p.v.status = "Pending" /\ now > p.v.expires_at) =>
                  StatusOf(requests', p.v.id) \in {"Pending", "Expired", "absent"}
       /\ \A q \in requests' :
              q.v.status = "Fulfilled" =>
                  /\ q.v.fulfilled_at # None
                  /\ q.v.fulfilled_at[1] <= q.v.expires_at]_vars

\* C39: in every reachable state of the request store each entry's device id
\* is the key it is stored under, no two entries share a request id, the
\* expiry is the creation time plus 24 hours, and an entry has a fulfillment
\* time and a storage path exactly when its status is Fulfilled.
C39_StoreInvariants ==
    /\ \A p \in requests :
           /\ p.v.device_id = p.k
           /\ p.v.expires_at = p.v.requested_at + 24
           /\ (p.v.fulfilled_at # None) <=> (p.v.status = "Fulfilled")
           /\ (p.v.log_file_path # None) <=> (p.v.status = "Fulfilled")
    /\ \A p, q \in requests : p.v.id = q.v.id => p = q

\* a store holding a Fulfilled entry with time and path next to an entry of
\* another device that is not Fulfilled and has neither
C39_Witness ==
    \E p, q \in requests :
        /\ p.k # q.k
        /\ p.v.status = "Fulfilled"
        /\ p.v.fulfilled_at # None
        /\ p.v.log_file_path # None
        /\ q.v.status = "Cancelled"
        /\ q.v.fulfilled_at = None

\* the step is a create_request for this device
CreateFor(device_id) == ret'.op = "create_request" /\ ret'.device_id = device_id

\* C40: get_pending is monotone between creates. A get_pending that returns
\* none, a successful fulfill and a successful cancel each leave the device
\* without a live request, and from a state in which the device has no live
\* request every step other than a create_request for that device (calls for
\* other devices, sweeps and the passing of time included) leads to a state in
\* which get_pending for the device returns none.
C40_NoneUntilCreate ==
    [][/\ \A d \in Devices :
            (LiveFor(requests, d, now) = {} /\ ~CreateFor(d))
                => get_pending(requests', d, now') = None
       /\ (ret'.op = "get_pending" /\ ret'.val = None)
            => get_pending(requests', ret'.device_id, now') = None
       /\ (ret'.op = "cancel" /\ ret'.val = "Ok")
            => get_pending(requests', ret'.device_id, now') = None
       /\ (ret'.op = "fulfill" /\ ret'.val = "Ok")
            => \A p \in requests' :
                   p.v.id = ret'.id => get_pending(requests', p.k, now') = None
      ]_vars

\* a query answers none for a device whose request was fulfilled and is still
\* stored, while the other device has a live request
C40_Witness ==
    /\ ret.op = "get_pending"
    /\ ret.val = None
    /\ \E p, q \in requests :
           /\ p.k = ret.device_id
           /\ p.v.status = "Fulfilled"
           /\ q.k # p.k
           /\ Live(q.v, now)

====
